---- MODULE Spec2Model ----
(***************************************************************************)
(* Model of the routing planner solver (src/src/solver.rs): solve() as a   *)
(* state machine over its phases                                           *)
(*   classify -> collect -> seed -> insert -> two_opt/relocate -> project  *)
(* with the scheduler (compute_schedule, find_fitting_window) and the      *)
(* local-search operators as operators computed the way the code computes  *)
(* them.                                                                   *)
(*                                                                         *)
(* Conventions.  Option<T> is a sequence: None is << >>, Some(x) is <<x>>. *)
(* Rust vectors are TLA+ sequences; loop indices named as in the source    *)
(* (position, visit_idx, insert_pos, i, j, route_index ...) keep the       *)
(* source's 0-based values and are shifted by one only where a sequence is *)
(* indexed.  A visit reference &V is the visit's index in the input slice, *)
(* which is also its id.  A coordinate is a pair of integers in units of   *)
(* 10^-7 degree, so that the rounding to 10^-6 degree done by              *)
(* coord_to_int_key is a real conversion.                                  *)
(***************************************************************************)
EXTENDS Integers, Sequences, FiniteSets, TLC

None == << >>

Some(x) == <<x>>

IsSome(o) == Len(o) > 0

Unwrap(o) == o[1]

(***************************************************************************)
(* Bounds of the model.                                                    *)
(***************************************************************************)
MaxVisits == 3

MaxIterations == 2

\* an iteration cap above the number of passes any explored input needs
ManyIterations == 8

(***************************************************************************)
(* Program constants.                                                      *)
(***************************************************************************)
I32Max == 2147483647

SecondsPerMinute == 60

CoordScale == 10

(***************************************************************************)
(* traits.rs: the closed enumerations.                                     *)
(***************************************************************************)
VisitPinType == {"None", "Visitor", "Date", "VisitorAndDate"}

UnassignedReason ==
    {"WrongDate", "MissingPinnedVisitor", "NoCapableVisitor", "NoFeasibleWindow"}

VARIABLES
    service_date,            \* input: the date being planned
    visits,                  \* input: sequence of visit records
    visitors,                \* input: sequence of visitor records
    availability,            \* input: visitor id -> Option<segments> for service_date
    provider,                \* input: which DistanceMatrixProvider is used
    options,                 \* input: SolveOptions (the cost weights)
    local_search_iterations, \* input: SolveOptions, drawn where it is first read
    pc,                      \* phase of solve()
    k,                       \* index of the loop the phase is in (0-based)
    to_assign,               \* Vec<&V>: free visits, input order
    unassigned_with_reason,  \* Vec<(&V, UnassignedReason)>
    pinned_assignments,      \* HashMap<&VisitorId, Vec<&V>>
    locations,               \* Vec<(f64, f64)>: de-duplicated coordinates
    matrix,                  \* Vec<Vec<i32>> returned by the provider
    coord_index,             \* HashMap<(i64, i64), usize>
    routes,                  \* Vec<RouteState>
    iteration,               \* local_search: passes started so far
    improved,                \* local_search: the pass' flag
    last_move,               \* what the last local-search step committed
    construction_cost,       \* sum of route costs when local search starts
    result                   \* PlannerResult, set by the projection

inputs == <<service_date, visits, visitors, availability, provider, options>>

vars == <<service_date, visits, visitors, availability, provider, options,
          local_search_iterations, pc, k, to_assign, unassigned_with_reason, pinned_assignments, locations,
          matrix, coord_index, routes, iteration, improved, last_move,
          construction_cost, result>>

(***************************************************************************)
(* Small helpers on sequences (Vec::insert, Vec::remove, slice::reverse).  *)
(***************************************************************************)
SeqInsert(s, pos, x) ==
    [n \in 1..(Len(s) + 1) |->
        IF n <= pos THEN s[n] ELSE IF n = pos + 1 THEN x ELSE s[n - 1]]

\* mutant of SeqRemove: the first element is removed whatever the index
SeqRemove_First(s, idx) == Tail(s)

SeqRemove(s, idx) ==
    [n \in 1..(Len(s) - 1) |-> IF n <= idx THEN s[n] ELSE s[n + 1]]

\* mutant of ReverseRange: the element before lo is reversed too
ReverseRange_FromBefore(s, lo, hi) ==
    [n \in 1..Len(s) |->
        IF n - 1 >= lo - 1 /\ n - 1 <= hi THEN s[(lo - 1 + hi) - (n - 1) + 1] ELSE s[n]]

\* s[lo..=hi].reverse() with the source's 0-based inclusive bounds
ReverseRange(s, lo, hi) ==
    [n \in 1..Len(s) |->
        IF n - 1 >= lo /\ n - 1 <= hi THEN s[(lo + hi) - (n - 1) + 1] ELSE s[n]]

RECURSIVE SumSeq(_)
SumSeq(s) == IF Len(s) = 0 THEN 0 ELSE s[1] + SumSeq(Tail(s))

Max2(a, b) == IF a >= b THEN a ELSE b

Abs(x) == IF x < 0 THEN -x ELSE x

(***************************************************************************)
(* Geo primitives.                                                         *)
(***************************************************************************)
\* f64::round of x / CoordScale: to the nearest integer, halves away from zero
RoundScaled(x) ==
    IF x >= 0 THEN (2 * x + CoordScale) \div (2 * CoordScale)
              ELSE -((2 * (-x) + CoordScale) \div (2 * CoordScale))

coord_to_int_key(coord) == <<RoundScaled(coord[1]), RoundScaled(coord[2])>>

RECURSIVE DedupeFrom(_, _, _)
DedupeFrom(locs, seen, unique) ==
    IF Len(locs) = 0 THEN unique
    ELSE LET key == coord_to_int_key(Head(locs)) IN
         IF key \in seen
         THEN DedupeFrom(Tail(locs), seen, unique)
         ELSE DedupeFrom(Tail(locs), seen \cup {key}, Append(unique, Head(locs)))

\* mutant of dedupe_locations: every location is kept
dedupe_locations_KeepAll(locs) == locs

dedupe_locations(locs) == DedupeFrom(locs, {}, << >>)

RECURSIVE VisitorLocations(_)
VisitorLocations(vs) ==
    IF Len(vs) = 0 THEN << >>
    ELSE Head(vs).start_location \o Head(vs).end_location \o VisitorLocations(Tail(vs))

collect_locations(vis, vs) ==
    dedupe_locations(VisitorLocations(vs) \o [n \in 1..Len(vis) |-> vis[n].location])

\* the map collected from (key, idx) pairs; a later pair of the same key would win
build_coord_index(locs) ==
    [key \in {coord_to_int_key(locs[n]) : n \in 1..Len(locs)} |->
        CHOOSE n \in 1..Len(locs) :
            /\ coord_to_int_key(locs[n]) = key
            /\ \A m \in 1..Len(locs) : coord_to_int_key(locs[m]) = key => m <= n]

travel_time_fast(from, to, mat, index) ==
    mat[index[coord_to_int_key(from)]][index[coord_to_int_key(to)]]

(***************************************************************************)
(* DistanceMatrixProvider: durations computed from the coordinates it is   *)
(* given.  "line" is the Manhattan metric of the test fixtures; "oneway"   *)
(* is asymmetric (travelling towards smaller coordinates costs double).    *)
(***************************************************************************)
Providers == {"line", "oneway"}

ProviderTravel(p, from, to) ==
    LET dx == to[1] - from[1]
        dy == to[2] - from[2]
        d  == 3 * (Abs(dx) + Abs(dy))
    IN  IF p = "oneway" /\ dx < 0 THEN 2 * d ELSE d

matrix_for(p, locs) ==
    [a \in 1..Len(locs) |-> [b \in 1..Len(locs) |-> ProviderTravel(p, locs[a], locs[b])]]

(***************************************************************************)
(* Capabilities.                                                           *)
(***************************************************************************)
\* mutant of visitor_can_do: the required capabilities are not compared
visitor_can_do_Any(visit, visitor) == TRUE

visitor_can_do(visit, visitor) ==
    IF visit.required_capabilities = {} THEN TRUE
    ELSE \A cap \in visit.required_capabilities : cap \in visitor.capabilities

visit_is_compatible(visit, vs) ==
    \E n \in 1..Len(vs) : visitor_can_do(visit, vs[n])

(***************************************************************************)
(* Scheduler.                                                              *)
(***************************************************************************)
\* mutant of FitsCommitted: the end is not checked against the committed end
FitsCommitted_NoCommittedEnd(adjusted_start, end_time, window_end, committed_end) ==
    /\ end_time <= window_end
    /\ adjusted_start <= committed_end

\* line 412: the visit fits the availability window and the committed window
FitsCommitted(adjusted_start, end_time, window_end, committed_end) ==
    /\ end_time <= window_end
    /\ adjusted_start <= committed_end
    /\ end_time <= committed_end

\* mutant of FitsWindow: the end is not checked against the segment's close
FitsWindow_Always(end_time, window_end) == TRUE

\* line 418: no committed window, the visit fits the availability window
FitsWindow(end_time, window_end) == end_time <= window_end

\* the window index is 0-based as in the source; windows[idx + 1] is the segment
RECURSIVE FindFittingFrom(_, _, _, _, _)
FindFittingFrom(idx, earliest_start, duration, windows, committed_window) ==
    IF idx >= Len(windows) THEN None
    ELSE
      LET window_start == windows[idx + 1][1]
          window_end == windows[idx + 1][2]
          start_in_window == Max2(earliest_start, window_start)
      IN
      IF IsSome(committed_window)
      THEN
        LET committed_start == Unwrap(committed_window)[1]
            committed_end == Unwrap(committed_window)[2]
            adjusted_start == Max2(start_in_window, committed_start)
            end_time == adjusted_start + duration
        IN
        IF committed_end < window_start THEN None
        ELSE IF committed_start > window_end
        THEN FindFittingFrom(idx + 1, earliest_start, duration, windows, committed_window)
        ELSE IF FitsCommitted(adjusted_start, end_time, window_end, committed_end)
        THEN Some(<<adjusted_start, idx>>)
        ELSE FindFittingFrom(idx + 1, earliest_start, duration, windows, committed_window)
      ELSE
        LET end_time == start_in_window + duration IN
        IF FitsWindow(end_time, window_end)
        THEN Some(<<start_in_window, idx>>)
        ELSE FindFittingFrom(idx + 1, earliest_start, duration, windows, committed_window)

\* mutant of find_fitting_window: the search starts at the first segment
find_fitting_window_FromFirst(earliest_start, duration, current_window_idx, windows, committed_window) ==
    FindFittingFrom(0, earliest_start, duration, windows, committed_window)

find_fitting_window(earliest_start, duration, current_window_idx, windows, committed_window) ==
    FindFittingFrom(current_window_idx, earliest_start, duration, windows, committed_window)

availability_for(visitor_id, date) ==
    IF date = service_date /\ visitor_id \in DOMAIN availability
    THEN availability[visitor_id] ELSE None

duration_secs(visit) == visit.estimated_duration_minutes * SecondsPerMinute

\* a + b fits in an i32
FitsI32(a, b) ==
    /\ (b > 0 => a <= I32Max - b)
    /\ (b < 0 => a >= (-I32Max - 1) - b)

\* i32 `+=` of the cost accumulator: the sum, wrapped modulo 2^32 when it does
\* not fit (a build with overflow checks panics there instead)
AddI32(a, b) ==
    IF FitsI32(a, b) THEN a + b
    ELSE IF b > 0 THEN (a - I32Max - 1) + (b - I32Max - 1)
    ELSE (a + I32Max + 1) + (b + I32Max + 1)

ReassignmentCost(visit, visitor) ==
    IF IsSome(visit.current_visitor_id) /\ Unwrap(visit.current_visitor_id) # visitor.id
    THEN options.reassignment_penalty ELSE 0

TargetCost(visit, start_time) ==
    IF IsSome(visit.target_time)
    THEN Abs(start_time - Unwrap(visit.target_time)) * options.target_time_weight
    ELSE 0

\* mutant of CommittedReady: a committed visit is ready at its committed start
CommittedReady_AtCommittedStart(visit, time) ==
    IF IsSome(visit.committed_window) THEN Unwrap(visit.committed_window)[1] ELSE time

\* the time at which the visit is ready after travel, raised to the committed start
CommittedReady(visit, time) ==
    IF IsSome(visit.committed_window) /\ time < Unwrap(visit.committed_window)[1]
    THEN Unwrap(visit.committed_window)[1] ELSE time

\* mutant of TimeAfter: the visit's duration is not added
TimeAfter_NoDuration(start_time, duration) == start_time

\* line 361: the time at which the visitor is free again
TimeAfter(start_time, duration) == start_time + duration

\* line 376: the window recorded for the visit
WindowAt(start_time, duration) == <<start_time, start_time + duration>>

\* the loop of compute_schedule from the n-th visit (1-based) of route_visits on
RECURSIVE ScheduleFrom(_, _, _, _, _, _, _, _, _)
ScheduleFrom(visitor, route_visits, n, time, current_window_idx, total_cost, result_windows, prev_location, availability_windows) ==
    IF n > Len(route_visits) THEN Some(<<result_windows, total_cost>>)
    ELSE
      LET visit == visits[route_visits[n]]
          travel == travel_time_fast(prev_location, visit.location, matrix, coord_index)
          ready == CommittedReady(visit, time + travel)
      IN
      IF IsSome(visit.committed_window) /\ ready > Unwrap(visit.committed_window)[2]
      THEN None
      ELSE
        LET fit == find_fitting_window(ready, duration_secs(visit), current_window_idx,
                                       availability_windows, visit.committed_window)
        IN
        IF ~IsSome(fit) THEN None
        ELSE
          LET start_time == Unwrap(fit)[1]
              window_idx == Unwrap(fit)[2]
          IN ScheduleFrom(visitor, route_visits, n + 1,
                          TimeAfter(start_time, duration_secs(visit)),
                          window_idx,
                          AddI32(AddI32(AddI32(total_cost, travel),
                                        TargetCost(visit, start_time)),
                                 ReassignmentCost(visit, visitor)),
                          Append(result_windows,
                                 WindowAt(start_time, duration_secs(visit))),
                          visit.location,
                          availability_windows)

\* visitor's start location, else the first visit's location, else (0.0, 0.0)
StartLocation(visitor, route_visits) ==
    IF IsSome(visitor.start_location) THEN Unwrap(visitor.start_location)
    ELSE IF Len(route_visits) > 0 THEN visits[route_visits[1]].location
    ELSE <<0, 0>>

\* Option<(windows, cost)> for the visit sequence route_visits on visitor
compute_schedule(visitor, route_visits) ==
    LET av == availability_for(visitor.id, service_date) IN
    IF ~IsSome(av) THEN None
    ELSE IF Len(Unwrap(av)) = 0 THEN None
    ELSE ScheduleFrom(visitor, route_visits, 1, Unwrap(av)[1][1], 0, 0, << >>,
                      StartLocation(visitor, route_visits), Unwrap(av))

(***************************************************************************)
(* RouteState and the sum of the stored route costs.                       *)
(***************************************************************************)
\* mutant of RouteState: the cost of the schedule is not stored
RouteState_CostUnset(visitor_idx, route_visits, windows, cost) ==
    [visitor |-> visitor_idx, visits |-> route_visits,
     estimated_windows |-> windows, total_travel_time |-> 0]

RouteState(visitor_idx, route_visits, windows, cost) ==
    [visitor |-> visitor_idx, visits |-> route_visits,
     estimated_windows |-> windows, total_travel_time |-> cost]

RouteVisitor(route) == visitors[route.visitor]

TotalCost(rs) == SumSeq([n \in 1..Len(rs) |-> rs[n].total_travel_time])

\* the sum over the routes other than the (1-based) indices in skip
OtherCost(rs, skip) ==
    SumSeq([n \in 1..Len(rs) |-> IF n \in skip THEN 0 ELSE rs[n].total_travel_time])

(***************************************************************************)
(* solve(): classification of one visit (the loop body of lines 80-100).   *)
(***************************************************************************)
\* mutant of IsVisitorPin: no pin type counts as a visitor pin
IsVisitorPin_Never(visit) == FALSE

\* matches!(pin_type, Visitor | VisitorAndDate) (lines 88-89, 583-586)
IsVisitorPin(visit) == visit.pin_type \in {"Visitor", "VisitorAndDate"}

WrongDate(visit) ==
    IsSome(visit.pinned_date) /\ Unwrap(visit.pinned_date) # service_date

\* HashMap::entry(key).or_default().push(v)
EntryPush(map, key, v) ==
    [x \in (DOMAIN map) \cup {key} |->
        IF x = key
        THEN Append(IF key \in DOMAIN map THEN map[key] ELSE << >>, v)
        ELSE map[x]]

\* HashMap::get(key).cloned().unwrap_or_default()
GetOrDefault(map, key) == IF key \in DOMAIN map THEN map[key] ELSE << >>

\* mutant of ClassOf: the pin type is matched before the date is compared
ClassOf_PinFirst(visit) ==
    IF IsVisitorPin(visit)
    THEN IF IsSome(visit.pinned_visitor) THEN "pinned" ELSE "missing"
    ELSE IF WrongDate(visit) THEN "wrong_date" ELSE "free"

\* "wrong_date" | "missing" | "pinned" | "free": the branch the loop body takes
ClassOf(visit) ==
    IF WrongDate(visit) THEN "wrong_date"
    ELSE IF IsVisitorPin(visit)
         THEN IF IsSome(visit.pinned_visitor) THEN "pinned" ELSE "missing"
         ELSE "free"

\* mutant of SeededRoute: no route is pushed when the seeding fails
SeededRoute_SkipFailed(visitor_idx, pinned, schedule) ==
    IF Len(pinned) > 0 /\ ~IsSome(schedule) THEN << >>
    ELSE IF Len(pinned) > 0
    THEN <<RouteState(visitor_idx, pinned, Unwrap(schedule)[1], Unwrap(schedule)[2])>>
    ELSE <<RouteState(visitor_idx, << >>, << >>, 0)>>

\* lines 122-140: the route pushed for a visitor, given the visits pinned to it
\* and their schedule; << >> when the loop pushes nothing
SeededRoute(visitor_idx, pinned, schedule) ==
    IF Len(pinned) > 0 /\ IsSome(schedule)
    THEN <<RouteState(visitor_idx, pinned, Unwrap(schedule)[1], Unwrap(schedule)[2])>>
    ELSE <<RouteState(visitor_idx, << >>, << >>, 0)>>

\* mutant of SeedFailures: only the first pinned visit is reported
SeedFailures_FirstOnly(pinned, schedule) ==
    IF Len(pinned) > 0 /\ ~IsSome(schedule)
    THEN <<<<pinned[1], "NoFeasibleWindow">>>>
    ELSE << >>

\* lines 129-137: the pinned visits drained to the unassigned list
SeedFailures(pinned, schedule) ==
    IF Len(pinned) > 0 /\ ~IsSome(schedule)
    THEN [n \in 1..Len(pinned) |-> <<pinned[n], "NoFeasibleWindow">>]
    ELSE << >>

(***************************************************************************)
(* solve(): the per-route evaluation of one free visit (lines 150-195).    *)
(***************************************************************************)
\* the loop over position (0-based) keeping the first strictly cheapest schedule
RECURSIVE PositionScan(_, _, _, _, _, _)
PositionScan(route, v, position, best_pos, best_cost, best_schedule) ==
    IF position > Len(route.visits)
    THEN [best_pos |-> best_pos, best_cost |-> best_cost, best_schedule |-> best_schedule]
    ELSE
      LET candidate == SeqInsert(route.visits, position, v)
          schedule == compute_schedule(RouteVisitor(route), candidate)
      IN
      IF IsSome(schedule) /\ Unwrap(schedule)[2] < best_cost
      THEN PositionScan(route, v, position + 1, Some(position),
                        Unwrap(schedule)[2], schedule)
      ELSE PositionScan(route, v, position + 1, best_pos, best_cost, best_schedule)

\* mutant of IsAvailable: every visitor counts as available
IsAvailable_Always(visitor) == TRUE

\* availability_for(visitor, service_date).is_some() (line 159)
IsAvailable(visitor) == IsSome(availability_for(visitor.id, service_date))

\* the closure of filter_map: None for a route whose visitor lacks a capability
EvaluateRoute(route_index, v) ==
    LET route == routes[route_index + 1] IN
    IF ~visitor_can_do(visits[v], RouteVisitor(route)) THEN None
    ELSE
      LET best == PositionScan(route, v, 0, None, I32Max, None) IN
      Some([route_index |-> route_index,
            best_pos |-> best.best_pos,
            best_cost |-> best.best_cost,
            best_schedule |-> best.best_schedule,
            is_available |-> IsAvailable(RouteVisitor(route))])

\* the orders in which the parallel closures over the routes may complete:
\* the sequences holding every route index (0-based) once
CompletionOrders ==
    {order \in [1..Len(routes) -> 0..(Len(routes) - 1)] :
        \A m, n \in 1..Len(routes) : m # n => order[m] # order[n]}

\* the closures' results as they complete: <<route_index, Option<evaluation>>>
Completions(order, v) ==
    [n \in 1..Len(order) |-> <<order[n], EvaluateRoute(order[n], v)>>]

\* mutant of RouteEvaluationsFrom: the results are kept as they complete
RECURSIVE RouteEvaluationsFrom_ByCompletion(_, _)
RouteEvaluationsFrom_ByCompletion(route_index, completions) ==
    IF route_index >= Len(completions) THEN << >>
    ELSE completions[route_index + 1][2]
         \o RouteEvaluationsFrom_ByCompletion(route_index + 1, completions)

\* par_iter().enumerate().filter_map(..).collect(): collect() of an ordered
\* parallel iterator yields the results in route order, whatever the order
\* in which they completed
RECURSIVE RouteEvaluationsFrom(_, _)
RouteEvaluationsFrom(route_index, completions) ==
    IF route_index >= Len(completions) THEN << >>
    ELSE LET n == CHOOSE m \in 1..Len(completions) : completions[m][1] = route_index
         IN completions[n][2] \o RouteEvaluationsFrom(route_index + 1, completions)

RouteEvaluations(order, v) == RouteEvaluationsFrom(0, Completions(order, v))

\* mutant of MinByCost: among equal costs the last evaluation is kept
RECURSIVE MinByCost_LastMinimum(_, _)
MinByCost_LastMinimum(evals, best) ==
    IF Len(evals) = 0 THEN best
    ELSE LET e == Head(evals) IN
         IF ~IsSome(e.best_pos) THEN MinByCost_LastMinimum(Tail(evals), best)
         ELSE IF ~IsSome(best) \/ e.best_cost <= Unwrap(best).best_cost
              THEN MinByCost_LastMinimum(Tail(evals), Some(e))
              ELSE MinByCost_LastMinimum(Tail(evals), best)

\* Iterator::min_by_key over the evaluations with a position: the first minimum
RECURSIVE MinByCost(_, _)
MinByCost(evals, best) ==
    IF Len(evals) = 0 THEN best
    ELSE LET e == Head(evals) IN
         IF ~IsSome(e.best_pos) THEN MinByCost(Tail(evals), best)
         ELSE IF ~IsSome(best) \/ e.best_cost < Unwrap(best).best_cost
              THEN MinByCost(Tail(evals), Some(e))
              ELSE MinByCost(Tail(evals), best)

BestEvaluation(evals) == MinByCost(evals, None)

\* mutant of FoundCapableAvailable: no evaluation counts as available
FoundCapableAvailable_Never(evals) == FALSE

\* route_evaluations.iter().any(is_available) (line 198)
FoundCapableAvailable(evals) == \E n \in 1..Len(evals) : evals[n].is_available

\* mutant of CommitInsertion: the visit is inserted, the schedule is not stored
CommitInsertion_KeepSchedule(rs, e, v) ==
    [rs EXCEPT ![e.route_index + 1].visits = SeqInsert(@, Unwrap(e.best_pos), v)]

\* routes after committing the evaluation e for visit v (lines 205-211)
CommitInsertion(rs, e, v) ==
    [rs EXCEPT ![e.route_index + 1] =
        RouteState(@.visitor,
                   SeqInsert(@.visits, Unwrap(e.best_pos), v),
                   IF IsSome(e.best_schedule) THEN Unwrap(e.best_schedule)[1]
                                              ELSE @.estimated_windows,
                   IF IsSome(e.best_schedule) THEN Unwrap(e.best_schedule)[2]
                                              ELSE @.total_travel_time)]

(***************************************************************************)
(* Local search: 2-opt.                                                    *)
(***************************************************************************)
\* mutant of TwoOptImproves: every feasible reversal is accepted
TwoOptImproves_Always(cost, current_cost) == TRUE

\* cost < current_cost (line 542)
TwoOptImproves(cost, current_cost) == cost < current_cost

\* the loops over i in 0..n-1 and j in i+2..n; Some(route') at the first
\* feasible candidate that is strictly cheaper than the stored cost
RECURSIVE TwoOptScan(_, _, _)
TwoOptScan(route, i, j) ==
    LET n == Len(route.visits) IN
    IF i >= n - 1 THEN None
    ELSE IF j >= n THEN TwoOptScan(route, i + 1, i + 3)
    ELSE
      LET candidate == ReverseRange(route.visits, i + 1, j)
          schedule == compute_schedule(RouteVisitor(route), candidate)
      IN
      IF IsSome(schedule)
         /\ TwoOptImproves(Unwrap(schedule)[2], route.total_travel_time)
      THEN Some(RouteState(route.visitor, candidate,
                           Unwrap(schedule)[1], Unwrap(schedule)[2]))
      ELSE TwoOptScan(route, i, j + 1)

\* Option<RouteState>: Some(route') when two_opt_improve returns true
two_opt_improve(route) ==
    IF Len(route.visits) < 3 THEN None ELSE TwoOptScan(route, 0, 2)

(***************************************************************************)
(* Local search: relocate.                                                 *)
(***************************************************************************)
\* mutant of RelocateImproves: a move of equal global cost is accepted
RelocateImproves_OrEqual(new_total, total_cost) == new_total <= total_cost

\* cost + other_cost < total_cost (lines 671, 710)
RelocateImproves(new_total, total_cost) == new_total < total_cost

\* mutant of InsertPositions: the end of the visit's own route is a position too
InsertPositions_Inclusive(rs, from_route_idx, to_route_idx) ==
    Len(rs[to_route_idx + 1].visits) + 1

InsertPositions(rs, from_route_idx, to_route_idx) ==
    IF from_route_idx = to_route_idx
    THEN Len(rs[to_route_idx + 1].visits)
    ELSE Len(rs[to_route_idx + 1].visits) + 1

\* lines 620-634: the target route's visits with the visit inserted
ToCandidate(rs, from_route_idx, visit_idx, to_route_idx, insert_pos) ==
    LET from_candidate == SeqRemove(rs[from_route_idx + 1].visits, visit_idx)
        actual_insert_pos ==
            IF from_route_idx = to_route_idx /\ insert_pos > visit_idx
            THEN insert_pos - 1 ELSE insert_pos
    IN SeqInsert(IF from_route_idx = to_route_idx THEN from_candidate
                 ELSE rs[to_route_idx + 1].visits,
                 actual_insert_pos, rs[from_route_idx + 1].visits[visit_idx + 1])

\* mutant of RelocateSkipped: the target's capabilities are not compared
RelocateSkipped_NoCapabilityCheck(rs, from_route_idx, visit_idx, to_route_idx, insert_pos) ==
    /\ from_route_idx = to_route_idx
    /\ (insert_pos = visit_idx \/ insert_pos = visit_idx + 1)

\* the candidate the innermost loop body reaches is skipped before scheduling
RelocateSkipped(rs, from_route_idx, visit_idx, to_route_idx, insert_pos) ==
    LET visit == visits[rs[from_route_idx + 1].visits[visit_idx + 1]] IN
    \/ /\ from_route_idx = to_route_idx
       /\ (insert_pos = visit_idx \/ insert_pos = visit_idx + 1)
    \/ /\ visit.required_capabilities # {}
       /\ ~(\A cap \in visit.required_capabilities :
               cap \in RouteVisitor(rs[to_route_idx + 1]).capabilities)

\* Option<routes'>: the body of the innermost loop for one candidate that was
\* not skipped; Some(routes') when the move is committed
RelocateTry(rs, total_cost, from_route_idx, visit_idx, to_route_idx, insert_pos) ==
    LET from_route == rs[from_route_idx + 1]
        to_route == rs[to_route_idx + 1]
        v == from_route.visits[visit_idx + 1]
        from_candidate == SeqRemove(from_route.visits, visit_idx)
        to_candidate == ToCandidate(rs, from_route_idx, visit_idx, to_route_idx, insert_pos)
        from_schedule ==
            compute_schedule(RouteVisitor(from_route),
                             IF from_route_idx = to_route_idx THEN to_candidate
                             ELSE from_candidate)
    IN
    IF ~IsSome(from_schedule) THEN None
    ELSE IF from_route_idx = to_route_idx
    THEN
      IF RelocateImproves(Unwrap(from_schedule)[2]
                            + OtherCost(rs, {from_route_idx + 1}), total_cost)
      THEN Some([rs EXCEPT ![from_route_idx + 1] =
                    RouteState(@.visitor, to_candidate,
                               Unwrap(from_schedule)[1], Unwrap(from_schedule)[2])])
      ELSE None
    ELSE
      LET to_schedule == compute_schedule(RouteVisitor(to_route), to_candidate) IN
      IF ~IsSome(to_schedule) THEN None
      ELSE IF RelocateImproves(
                  Unwrap(from_schedule)[2] + Unwrap(to_schedule)[2]
                    + OtherCost(rs, {from_route_idx + 1, to_route_idx + 1}),
                  total_cost)
      THEN Some([rs EXCEPT
                    ![from_route_idx + 1] =
                        RouteState(@.visitor, SeqRemove(@.visits, visit_idx),
                                   Unwrap(from_schedule)[1], Unwrap(from_schedule)[2]),
                    ![to_route_idx + 1] =
                        RouteState(@.visitor, SeqInsert(@.visits, insert_pos, v),
                                   Unwrap(to_schedule)[1], Unwrap(to_schedule)[2])])
      ELSE None

\* the four nested loops, advanced like an odometer; Some(routes') at the first
\* committed move, None when every candidate was skipped or rejected
RECURSIVE RelocateScan(_, _, _, _, _, _)
RelocateScan(rs, total_cost, from_route_idx, visit_idx, to_route_idx, insert_pos) ==
    IF from_route_idx >= Len(rs) THEN None
    ELSE IF visit_idx >= Len(rs[from_route_idx + 1].visits)
    THEN RelocateScan(rs, total_cost, from_route_idx + 1, 0, 0, 0)
    ELSE IF to_route_idx >= Len(rs)
    THEN RelocateScan(rs, total_cost, from_route_idx, visit_idx + 1, 0, 0)
    ELSE IF \/ /\ IsVisitorPin(visits[rs[from_route_idx + 1].visits[visit_idx + 1]])
               /\ to_route_idx # from_route_idx
            \/ insert_pos >= InsertPositions(rs, from_route_idx, to_route_idx)
    THEN RelocateScan(rs, total_cost, from_route_idx, visit_idx, to_route_idx + 1, 0)
    ELSE IF RelocateSkipped(rs, from_route_idx, visit_idx, to_route_idx, insert_pos)
    THEN RelocateScan(rs, total_cost, from_route_idx, visit_idx, to_route_idx,
                      insert_pos + 1)
    ELSE
      LET moved == RelocateTry(rs, total_cost, from_route_idx, visit_idx,
                               to_route_idx, insert_pos)
      IN
      IF IsSome(moved) THEN moved
      ELSE RelocateScan(rs, total_cost, from_route_idx, visit_idx, to_route_idx,
                        insert_pos + 1)

\* Option<routes'>: Some(routes') when relocate_improve returns true
relocate_improve(rs) == RelocateScan(rs, TotalCost(rs), 0, 0, 0, 0)

(***************************************************************************)
(* Inputs.  Visits are drawn from a catalogue of shapes, each the default  *)
(* visit of the test fixtures with one constraint group changed; the       *)
(* location of a visit is given by its position in the input.  Two         *)
(* families of inputs are explored: the intake family (one or two visits)  *)
(* varies pins, dates and capabilities over every order of the visitors,   *)
(* the scheduling family (up to MaxVisits visits) varies windows, targets, *)
(* prior assignments, availability, the matrix provider and the weights,   *)
(* the penalty family sets reassignment_penalty to i32::MAX.  Every cost   *)
(* of the explored inputs fits an i32: TLC's integers have that width and  *)
(* TLC stops on an overflow.                                               *)
(***************************************************************************)
ServiceDates == {1}

Depot == <<0, 0>>

\* the second position shares its rounded key with the depot
VisitLocations == << <<20, 0>>, <<4, 0>>, <<10, 0>>, <<30, 0>>, <<16, 0>> >>

DefaultShape ==
    [estimated_duration_minutes |-> 1, pin_type |-> "None", pinned_visitor |-> None,
     pinned_date |-> None, committed_window |-> None, target_time |-> None,
     required_capabilities |-> {}, current_visitor_id |-> None]

Pinned(shape, pin_type, visitor, date) ==
    [shape EXCEPT !.pin_type = pin_type, !.pinned_visitor = visitor,
                  !.pinned_date = date]

IntakeShapes ==
    {DefaultShape,
     [DefaultShape EXCEPT !.required_capabilities = {"c"}],
     Pinned(DefaultShape, "Date", None, Some(1)),
     Pinned(DefaultShape, "Date", None, Some(2)),
     Pinned(DefaultShape, "None", None, Some(2)),
     Pinned(DefaultShape, "Visitor", Some("a"), None),
     Pinned(DefaultShape, "Visitor", Some("x"), None),
     Pinned(DefaultShape, "Visitor", None, None),
     Pinned(DefaultShape, "VisitorAndDate", Some("a"), Some(1)),
     Pinned(DefaultShape, "VisitorAndDate", Some("a"), Some(2)),
     Pinned(DefaultShape, "VisitorAndDate", None, Some(2)),
     Pinned(DefaultShape, "Visitor", Some("b"), None),
     Pinned(DefaultShape, "None", Some("a"), None),
     Pinned([DefaultShape EXCEPT !.required_capabilities = {"c"}],
            "Visitor", Some("a"), None)}

SchedulingShapes ==
    {DefaultShape,
     [DefaultShape EXCEPT !.committed_window = Some(<<0, 90>>)],
     [DefaultShape EXCEPT !.committed_window = Some(<<250, 400>>),
                          !.estimated_duration_minutes = 2],
     [DefaultShape EXCEPT !.target_time = Some(0), !.current_visitor_id = Some("a")],
     Pinned(DefaultShape, "Visitor", Some("a"), None)}

VisitOf(shape, n) ==
    [location |-> VisitLocations[n],
     estimated_duration_minutes |-> shape.estimated_duration_minutes,
     pin_type |-> shape.pin_type,
     pinned_visitor |-> shape.pinned_visitor,
     pinned_date |-> shape.pinned_date,
     committed_window |-> shape.committed_window,
     target_time |-> shape.target_time,
     required_capabilities |-> shape.required_capabilities,
     current_visitor_id |-> shape.current_visitor_id]

\* every list of at most MaxVisits visits over the shapes; a visit after the
\* third has the default shape
VisitLists(shapes) ==
    UNION {{[n \in 1..len |-> VisitOf(f[n], n)] :
                f \in {g \in [1..len -> shapes] :
                          \A n \in 1..len : n > 3 => g[n] = DefaultShape}} :
           len \in 0..MaxVisits}

\* every list of one or two visits over the shapes
VisitPairs(shapes) ==
    {<<VisitOf(s, 1)>> : s \in shapes}
    \cup {<<VisitOf(s, 1), VisitOf(t, 2)>> : s \in shapes, t \in shapes}

VisitorA ==
    [id |-> "a", start_location |-> Some(Depot), end_location |-> None,
     capabilities |-> {}]

VisitorB ==
    [id |-> "b", start_location |-> None, end_location |-> Some(<<30, 0>>),
     capabilities |-> {"c"}]

VisitorLists ==
    {<< >>, <<VisitorA>>, <<VisitorB>>, <<VisitorA, VisitorB>>, <<VisitorB, VisitorA>>}

FullDay == Some(<< <<0, 600>> >>)

SplitDay == Some(<< <<0, 100>>, <<200, 400>> >>)

\* visitor lists with the availability of each visitor id
Worlds ==
    {[visitors |-> vs, availability |-> [id \in {"a", "b"} |-> IF id = "a" THEN aa ELSE ab]] :
        vs \in {<<VisitorA>>}, aa \in {None, FullDay, SplitDay}, ab \in {FullDay}}
    \cup
    {[visitors |-> vs, availability |-> [id \in {"a", "b"} |-> IF id = "a" THEN aa ELSE ab]] :
        vs \in {<<VisitorA, VisitorB>>}, aa \in {None, FullDay, SplitDay},
        ab \in {None, FullDay}}

IntakeInputs ==
    {[service_date |-> d, visits |-> vl, visitors |-> vs,
      availability |-> [id \in {"a", "b"} |-> IF id = "a" THEN aa ELSE FullDay],
      provider |-> "line",
      options |-> [target_time_weight |-> 1, reassignment_penalty |-> 300]] :
        d \in ServiceDates, vl \in VisitPairs(IntakeShapes),
        vs \in VisitorLists, aa \in {None, FullDay}}

\* the matrix provider with the cost weights of the options
Costs ==
    {[provider |-> "line",
      options |-> [target_time_weight |-> 1, reassignment_penalty |-> 0]],
     [provider |-> "oneway",
      options |-> [target_time_weight |-> 2, reassignment_penalty |-> 50]]}

SchedulingInputs ==
    {[service_date |-> d, visits |-> vl, visitors |-> w.visitors,
      availability |-> w.availability,
      provider |-> c.provider,
      options |-> c.options] :
        d \in ServiceDates, vl \in VisitLists(SchedulingShapes),
        w \in Worlds, c \in Costs}

\* one or two visits last assigned to visitor a, who is unavailable, under
\* the largest reassignment_penalty the options can hold
PenaltyInputs ==
    {[service_date |-> d, visits |-> vl, visitors |-> vs,
      availability |-> [id \in {"a", "b"} |-> IF id = "a" THEN None ELSE FullDay],
      provider |-> "line",
      options |-> [target_time_weight |-> 1, reassignment_penalty |-> I32Max]] :
        d \in ServiceDates,
        vl \in VisitPairs({[DefaultShape EXCEPT !.current_visitor_id = Some("a")]}),
        vs \in {<<VisitorB>>, <<VisitorA, VisitorB>>, <<VisitorB, VisitorA>>}}

Inputs == IntakeInputs \cup SchedulingInputs \cup PenaltyInputs

Init ==
    /\ \E inp \in Inputs :
        /\ service_date = inp.service_date
        /\ visits = inp.visits
        /\ visitors = inp.visitors
        /\ availability = inp.availability
        /\ provider = inp.provider
        /\ options = inp.options
    /\ local_search_iterations = 0
    /\ pc = "classify"
    /\ k = 0
    /\ to_assign = << >>
    /\ unassigned_with_reason = << >>
    /\ pinned_assignments = << >>
    /\ locations = << >>
    /\ matrix = << >>
    /\ coord_index = << >>
    /\ routes = << >>
    /\ iteration = 0
    /\ improved = FALSE
    /\ last_move = "none"
    /\ construction_cost = 0
    /\ result = [routes |-> << >>, unassigned |-> << >>]

(***************************************************************************)
(* The phase that follows the seeding of visitor n / the insertion of the  *)
(* n-th free visit (0-based): the loops' exit conditions.                  *)
(***************************************************************************)
PhaseFromInsert(n) ==
    IF n < Len(to_assign) THEN <<"insert", n>> ELSE <<"local_search", 0>>

PhaseFromSeed(n) ==
    IF n < Len(visitors) THEN <<"seed", n>> ELSE PhaseFromInsert(0)

\* a pass starts with 2-opt on the first route, or relocate when no route exists
PhaseOfPass == IF Len(routes) > 0 THEN <<"two_opt", 0>> ELSE <<"relocate", 0>>

(***************************************************************************)
(* solve(), lines 80-100: one iteration of the classification loop.        *)
(***************************************************************************)
Classify ==
    /\ pc = "classify"
    /\ k < Len(visits)
    /\ LET v == k + 1
           class == ClassOf(visits[v])
       IN
       /\ unassigned_with_reason' =
            IF class = "wrong_date"
            THEN Append(unassigned_with_reason, <<v, "WrongDate">>)
            ELSE IF class = "missing"
            THEN Append(unassigned_with_reason, <<v, "MissingPinnedVisitor">>)
            ELSE unassigned_with_reason
       /\ pinned_assignments' =
            IF class = "pinned"
            THEN EntryPush(pinned_assignments, Unwrap(visits[v].pinned_visitor), v)
            ELSE pinned_assignments
       /\ to_assign' = IF class = "free" THEN Append(to_assign, v) ELSE to_assign
    /\ k' = k + 1
    /\ UNCHANGED <<inputs, local_search_iterations, pc, locations, matrix, coord_index,
                   routes, iteration, improved, last_move, construction_cost, result>>

(***************************************************************************)
(* solve(), lines 102-110: locations, matrix and coordinate index.         *)
(***************************************************************************)
CollectLocations ==
    /\ pc = "classify"
    /\ k = Len(visits)
    /\ locations' = collect_locations(visits, visitors)
    /\ matrix' = matrix_for(provider, locations')
    /\ coord_index' = build_coord_index(locations')
    /\ pc' = PhaseFromSeed(0)[1]
    /\ k' = 0
    /\ UNCHANGED <<inputs, local_search_iterations, to_assign, unassigned_with_reason,
                   pinned_assignments, routes, iteration, improved, last_move,
                   construction_cost, result>>

(***************************************************************************)
(* solve(), lines 116-141: the route of one visitor, seeded with the       *)
(* visits pinned to it.                                                    *)
(***************************************************************************)
SeedRoute ==
    /\ pc = "seed"
    /\ k < Len(visitors)
    /\ LET visitor == visitors[k + 1]
           pinned == GetOrDefault(pinned_assignments, visitor.id)
           schedule == IF Len(pinned) > 0 THEN compute_schedule(visitor, pinned)
                       ELSE None
       IN
       /\ routes' = routes \o SeededRoute(k + 1, pinned, schedule)
       /\ unassigned_with_reason' =
            unassigned_with_reason \o SeedFailures(pinned, schedule)
    /\ construction_cost' = TotalCost(routes')
    /\ pc' = PhaseFromSeed(k + 1)[1]
    /\ k' = PhaseFromSeed(k + 1)[2]
    /\ UNCHANGED <<inputs, local_search_iterations, to_assign, pinned_assignments,
                   locations, matrix, coord_index, iteration, improved, last_move,
                   result>>

(***************************************************************************)
(* solve(), lines 143-221: cheapest insertion of one free visit.           *)
(***************************************************************************)
\* the body of the loop for the free visit v (lines 144-220), the parallel
\* closures completing in the given order: the routes and the unassigned list
\* after it
InsertOutcome(order, v) ==
    IF ~visit_is_compatible(visits[v], visitors)
    THEN [routes |-> routes,
          unassigned_with_reason |->
              Append(unassigned_with_reason, <<v, "NoCapableVisitor">>)]
    ELSE
      LET route_evaluations == RouteEvaluations(order, v)
          best == BestEvaluation(route_evaluations)
      IN
      IF IsSome(best)
      THEN [routes |-> CommitInsertion(routes, Unwrap(best), v),
            unassigned_with_reason |-> unassigned_with_reason]
      ELSE [routes |-> routes,
            unassigned_with_reason |->
                Append(unassigned_with_reason,
                       <<v, IF FoundCapableAvailable(route_evaluations)
                            THEN "NoFeasibleWindow" ELSE "NoCapableVisitor">>)]

InsertVisit ==
    /\ pc = "insert"
    /\ k < Len(to_assign)
    /\ \E order \in CompletionOrders :
         LET outcome == InsertOutcome(order, to_assign[k + 1]) IN
         /\ routes' = outcome.routes
         /\ unassigned_with_reason' = outcome.unassigned_with_reason
    /\ construction_cost' = TotalCost(routes')
    /\ pc' = PhaseFromInsert(k + 1)[1]
    /\ k' = PhaseFromInsert(k + 1)[2]
    /\ UNCHANGED <<inputs, local_search_iterations, to_assign, pinned_assignments,
                   locations, matrix, coord_index, iteration, improved, last_move,
                   result>>

(***************************************************************************)
(* local_search(), lines 744-745: the loop is entered with the iteration   *)
(* cap of the options.                                                     *)
(***************************************************************************)
\* the values of options.local_search_iterations that are explored
IterationCaps == (0..MaxIterations) \cup {ManyIterations}

\* mutant of ContinueSearch: a pass without a move does not end the loop
ContinueSearch_IgnoreStagnation(pass_improved, passes, cap) == passes < cap

\* the loop runs another pass: the pass improved (line 775) and the range
\* 0..local_search_iterations is not exhausted (line 745)
ContinueSearch(pass_improved, passes, cap) == pass_improved /\ passes < cap

LocalSearchBegin ==
    /\ pc = "local_search"
    /\ \E cap \in IterationCaps :
        /\ local_search_iterations' = cap
        /\ pc' = IF cap > 0 THEN PhaseOfPass[1] ELSE "project"
    /\ iteration' = 0
    /\ improved' = FALSE
    /\ k' = 0
    /\ UNCHANGED <<inputs, to_assign, unassigned_with_reason, pinned_assignments,
                   locations, matrix, coord_index, routes, last_move,
                   construction_cost, result>>

(***************************************************************************)
(* local_search(), lines 749-760: 2-opt on one route of the pass.          *)
(***************************************************************************)
TwoOptRoute ==
    /\ pc = "two_opt"
    /\ k < Len(routes)
    /\ LET better == two_opt_improve(routes[k + 1]) IN
       IF IsSome(better)
       THEN /\ routes' = [routes EXCEPT ![k + 1] = Unwrap(better)]
            /\ improved' = TRUE
            /\ last_move' = "two_opt"
       ELSE /\ UNCHANGED <<routes, improved>>
            /\ last_move' = "two_opt_none"
    /\ pc' = IF k + 1 < Len(routes) THEN "two_opt" ELSE "relocate"
    /\ k' = IF k + 1 < Len(routes) THEN k + 1 ELSE 0
    /\ UNCHANGED <<inputs, local_search_iterations, to_assign, unassigned_with_reason,
                   pinned_assignments, locations, matrix, coord_index, iteration,
                   construction_cost, result>>

(***************************************************************************)
(* local_search(), lines 763-777: the relocate step that ends a pass, and  *)
(* the loop's exit or next pass.                                           *)
(***************************************************************************)
RelocatePass ==
    /\ pc = "relocate"
    /\ LET moved == relocate_improve(routes)
           pass_improved == improved \/ IsSome(moved)
           again == ContinueSearch(pass_improved, iteration + 1,
                                   local_search_iterations)
       IN
       /\ routes' = IF IsSome(moved) THEN Unwrap(moved) ELSE routes
       /\ last_move' = IF IsSome(moved) THEN "relocate" ELSE "relocate_none"
       /\ iteration' = iteration + 1
       /\ improved' = IF again THEN FALSE ELSE pass_improved
       /\ pc' = IF again THEN PhaseOfPass[1] ELSE "project"
    /\ k' = 0
    /\ UNCHANGED <<inputs, local_search_iterations, to_assign, unassigned_with_reason,
                   pinned_assignments, locations, matrix, coord_index,
                   construction_cost, result>>

(***************************************************************************)
(* solve(), lines 245-277: the projection of the routes and the unassigned *)
(* list to the PlannerResult.                                              *)
(***************************************************************************)
VisitId(v) == v

RouteResult(route) ==
    [visitor_id |-> RouteVisitor(route).id,
     visit_ids |-> [n \in 1..Len(route.visits) |-> VisitId(route.visits[n])],
     estimated_windows |-> route.estimated_windows,
     total_travel_time |-> route.total_travel_time]

PlannerResult(rs, unassigned) ==
    [routes |-> [n \in 1..Len(rs) |-> RouteResult(rs[n])],
     unassigned |-> [n \in 1..Len(unassigned) |->
                        [visit_id |-> VisitId(unassigned[n][1]),
                         reason |-> unassigned[n][2]]]]

Project ==
    /\ pc = "project"
    /\ result' = PlannerResult(routes, unassigned_with_reason)
    /\ pc' = "done"
    /\ UNCHANGED <<inputs, local_search_iterations, k, to_assign,
                   unassigned_with_reason, pinned_assignments, locations, matrix,
                   coord_index, routes, iteration, improved, last_move,
                   construction_cost>>

Next ==
    \/ Classify
    \/ CollectLocations
    \/ SeedRoute
    \/ InsertVisit
    \/ LocalSearchBegin
    \/ TwoOptRoute
    \/ RelocatePass
    \/ Project

Spec == Init /\ [][Next]_vars

Done == pc = "done"

(***************************************************************************)
(* Notions the properties are stated in: they read the inputs and the      *)
(* PlannerResult only.                                                     *)
(***************************************************************************)
VisitIds == 1..Len(visits)

RouteIndices == 1..Len(result.routes)

\* how often visit id v occurs in the visit_ids of the route at index r
CountInRoute(v, r) ==
    Cardinality({n \in 1..Len(result.routes[r].visit_ids) :
                    result.routes[r].visit_ids[n] = v})

CountInRoutes(v) ==
    SumSeq([r \in 1..Len(result.routes) |-> CountInRoute(v, r)])

CountUnassigned(v) ==
    Cardinality({n \in 1..Len(result.unassigned) : result.unassigned[n].visit_id = v})

ReportedWith(v, reason) ==
    \E n \in 1..Len(result.unassigned) :
        result.unassigned[n] = [visit_id |-> v, reason |-> reason]

\* the input visitor of the route at index r of the result
VisitorOfRoute(r) == visitors[r]

\* the positions <<r, n>> of the result's routes
Assigned ==
    {rn \in RouteIndices \X (1..MaxVisits + 1) : rn[2] <= Len(result.routes[rn[1]].visit_ids)}

VisitAtPos(rn) == visits[result.routes[rn[1]].visit_ids[rn[2]]]

WindowAtPos(rn) == result.routes[rn[1]].estimated_windows[rn[2]]

(***************************************************************************)
(* C1  Partition: when solve() has returned, every input visit id occurs   *)
(* exactly once in the routes' visit_ids and the unassigned list together. *)
(* The code loses a visit pinned to a visitor id that is not in the input  *)
(* visitor list: its bucket of pinned_assignments is never read.           *)
(***************************************************************************)
C1_Partition ==
    Done => \A v \in VisitIds : CountInRoutes(v) + CountUnassigned(v) = 1

(***************************************************************************)
(* C2  Capability respect: when solve() has returned, the visitor of every *)
(* route has every capability required by every visit of the route, free   *)
(* and visitor-pinned visits alike.  The pinned seeding checks none.       *)
(***************************************************************************)
C2_CapabilityRespect ==
    Done => \A rn \in Assigned :
                VisitAtPos(rn).required_capabilities
                    \subseteq VisitorOfRoute(rn[1]).capabilities

(***************************************************************************)
(* C3  Pin respect: when solve() has returned, a visit whose pin_type is   *)
(* Visitor or VisitorAndDate is in the route of its pinned_visitor or in   *)
(* the unassigned list, and in no route of another visitor.                *)
(***************************************************************************)
C3_PinRespect ==
    Done => \A v \in VisitIds :
        visits[v].pin_type \in {"Visitor", "VisitorAndDate"} =>
            /\ \/ CountUnassigned(v) > 0
               \/ \E r \in RouteIndices :
                    /\ CountInRoute(v, r) > 0
                    /\ visits[v].pinned_visitor = Some(result.routes[r].visitor_id)
            /\ \A r \in RouteIndices :
                    CountInRoute(v, r) > 0 =>
                        visits[v].pinned_visitor = Some(result.routes[r].visitor_id)

(***************************************************************************)
(* C4  Committed-window respect: when solve() has returned, every assigned *)
(* visit with a committed window (cw_s, cw_e) has an estimated window      *)
(* (start, end) with cw_s <= start <= cw_e and end <= cw_e.                *)
(***************************************************************************)
C4_CommittedWindowRespect ==
    Done => \A rn \in Assigned :
        IsSome(VisitAtPos(rn).committed_window) =>
            LET cw == VisitAtPos(rn).committed_window[1]
                w == WindowAtPos(rn)
            IN  cw[1] <= w[1] /\ w[1] <= cw[2] /\ w[2] <= cw[2]

\* a visit that waited for its committed window to open, in a route of several
C4_Witness ==
    /\ Done
    /\ \E rn \in Assigned :
        /\ IsSome(VisitAtPos(rn).committed_window)
        /\ VisitAtPos(rn).committed_window[1][1] > 0
        /\ WindowAtPos(rn)[1] = VisitAtPos(rn).committed_window[1][1]
        /\ Len(result.routes[rn[1]].visit_ids) >= 2

(***************************************************************************)
(* C5  Availability containment: when solve() has returned, every          *)
(* estimated window of every route lies inside one availability segment of *)
(* the route's visitor for the service date, and a route with visits       *)
(* belongs to a visitor that has availability.                             *)
(***************************************************************************)
C5_AvailabilityContainment ==
    Done => \A r \in RouteIndices :
        LET av == availability[result.routes[r].visitor_id]
            ws == result.routes[r].estimated_windows
        IN
        /\ Len(result.routes[r].visit_ids) > 0 => Len(av) > 0
        /\ \A n \in 1..Len(ws) :
              /\ Len(av) > 0
              /\ \E m \in 1..Len(av[1]) :
                    av[1][m][1] <= ws[n][1] /\ ws[n][2] <= av[1][m][2]

\* a route whose windows use both segments of a split day
C5_Witness ==
    /\ Done
    /\ \E r \in RouteIndices :
        LET av == availability[result.routes[r].visitor_id]
            ws == result.routes[r].estimated_windows
        IN
        /\ Len(av) > 0
        /\ Len(av[1]) = 2
        /\ \E n \in 1..Len(ws) : ws[n][2] <= av[1][1][2]
        /\ \E n \in 1..Len(ws) : ws[n][1] >= av[1][2][1]

(***************************************************************************)
(* C6  Monotonic non-overlap: when solve() has returned, in every route    *)
(* the estimated window of a visit ends no later than the window of the    *)
(* next visit starts.                                                      *)
(***************************************************************************)
C6_MonotonicNonOverlap ==
    Done => \A r \in RouteIndices :
        LET ws == result.routes[r].estimated_windows IN
        \A n \in 1..(Len(ws) - 1) : ws[n][2] <= ws[n + 1][1]

\* a route of three visits that local search has changed
C6_Witness ==
    /\ Done
    /\ last_move \in {"two_opt", "relocate"}
    /\ \E r \in RouteIndices : Len(result.routes[r].estimated_windows) >= 3

(***************************************************************************)
(* C7  Windows align: when solve() has returned, every route has as many   *)
(* estimated windows as visit ids, and the window of each visit is as long *)
(* as the visit's duration, estimated_duration_minutes * 60 seconds.       *)
(***************************************************************************)
C7_WindowsAlign ==
    Done => \A r \in RouteIndices :
        LET ids == result.routes[r].visit_ids
            ws == result.routes[r].estimated_windows
        IN
        /\ Len(ws) = Len(ids)
        /\ \A n \in 1..Len(ids) :
              ws[n][2] - ws[n][1] = visits[ids[n]].estimated_duration_minutes * 60

\* a route with visits of different durations, one of them inserted
C7_Witness ==
    /\ Done
    /\ \E r \in RouteIndices :
        LET ids == result.routes[r].visit_ids IN
        /\ \E n \in 1..Len(ids) : visits[ids[n]].estimated_duration_minutes = 1
        /\ \E n \in 1..Len(ids) :
              /\ visits[ids[n]].estimated_duration_minutes = 2
              /\ visits[ids[n]].pin_type = "None"

(***************************************************************************)
(* C8  Route cardinality: when solve() has returned, the result has one    *)
(* route per input visitor, in input visitor order, also for visitors left *)
(* without visits; with no input visit every route is empty and nothing is *)
(* unassigned.                                                             *)
(***************************************************************************)
C8_RouteCardinality ==
    Done =>
        /\ Len(result.routes) = Len(visitors)
        /\ \A n \in 1..Len(visitors) :
              n <= Len(result.routes) => result.routes[n].visitor_id = visitors[n].id
        /\ Len(visits) = 0 =>
              /\ \A r \in RouteIndices : Len(result.routes[r].visit_ids) = 0
              /\ Len(result.unassigned) = 0

\* two visitors, the first left without visits after its seeding failed
C8_Witness ==
    /\ Done
    /\ Len(visitors) = 2
    /\ Len(result.routes) = 2
    /\ Len(result.routes[1].visit_ids) = 0
    /\ Len(result.routes[2].visit_ids) > 0
    /\ \E v \in VisitIds :
        /\ visits[v].pinned_visitor = Some(visitors[1].id)
        /\ ReportedWith(v, "NoFeasibleWindow")

(***************************************************************************)
(* C9  Date respect: when solve() has returned, every visit whose          *)
(* pinned_date is set and differs from the service date is reported        *)
(* unassigned with WrongDate and is in no route, whatever its pin_type.    *)
(***************************************************************************)
C9_DateRespect ==
    Done => \A v \in VisitIds :
        (Len(visits[v].pinned_date) > 0 /\ visits[v].pinned_date[1] # service_date) =>
            /\ ReportedWith(v, "WrongDate")
            /\ CountUnassigned(v) = 1
            /\ CountInRoutes(v) = 0

\* a visit pinned to an available input visitor and to another date
C9_Witness ==
    /\ Done
    /\ \E v \in VisitIds :
        /\ visits[v].pin_type = "VisitorAndDate"
        /\ visits[v].pinned_date # Some(service_date)
        /\ \E n \in 1..Len(visitors) :
              /\ visits[v].pinned_visitor = Some(visitors[n].id)
              /\ Len(availability[visitors[n].id]) > 0
        /\ ReportedWith(v, "WrongDate")

(***************************************************************************)
(* C10  When solve() has returned, a free visit (pin_type None or Date,    *)
(* pinned_date absent or equal to the service date) for which no input     *)
(* visitor has all required capabilities is reported unassigned with       *)
(* NoCapableVisitor and is in no route; this covers the empty visitor      *)
(* list.                                                                   *)
(***************************************************************************)
NoVisitorCapable(v) ==
    \A n \in 1..Len(visitors) :
        ~(visits[v].required_capabilities \subseteq visitors[n].capabilities)

FreeOnDate(v) ==
    /\ visits[v].pin_type \in {"None", "Date"}
    /\ visits[v].pinned_date \in {None, Some(service_date)}

C10_NoCapableVisitor ==
    Done => \A v \in VisitIds :
        (FreeOnDate(v) /\ NoVisitorCapable(v)) =>
            /\ ReportedWith(v, "NoCapableVisitor")
            /\ CountUnassigned(v) = 1
            /\ CountInRoutes(v) = 0

\* a visit no visitor of a non-empty list can do, beside a visit that was placed
C10_Witness ==
    /\ Done
    /\ Len(visitors) > 0
    /\ \E v \in VisitIds :
        /\ FreeOnDate(v)
        /\ NoVisitorCapable(v)
        /\ ReportedWith(v, "NoCapableVisitor")
    /\ \E v \in VisitIds : CountInRoutes(v) = 1

(***************************************************************************)
(* Reasons of unassigned free visits.                                      *)
(***************************************************************************)
\* the input visitors (by position) holding every required capability of v
CapableVisitors(v) ==
    {r \in 1..Len(visitors) :
        visits[v].required_capabilities \subseteq visitors[r].capabilities}

\* the capable visitors for which the provider returns windows on service_date
CapableAvailable(v) ==
    {r \in CapableVisitors(v) : Len(availability[visitors[r].id]) > 0}

\* v is a free visit with a capable visitor that the result leaves unassigned
FreeLeftOut(v) ==
    /\ FreeOnDate(v)
    /\ CapableVisitors(v) # {}
    /\ CountUnassigned(v) > 0

PinnedTo(r) ==
    SelectSeq([v \in 1..Len(visits) |-> v],
              LAMBDA v : /\ IsVisitorPin(visits[v])
                         /\ visits[v].pinned_visitor = Some(visitors[r].id)
                         /\ visits[v].pinned_date \in {None, Some(service_date)})

\* C13: pinned seeding is all-or-nothing per visitor: when the visits pinned
\* to a visitor, in input order, cannot be scheduled on that visitor, every
\* one of them is reported NoFeasibleWindow and is in no route; otherwise
\* every one of them is in that visitor's route.
C13_SeedingAllOrNothing ==
    Done =>
      \A r \in RouteIndices :
        LET pinned == PinnedTo(r) IN
        IF IsSome(compute_schedule(visitors[r], pinned))
        THEN \A n \in 1..Len(pinned) :
                /\ CountInRoute(pinned[n], r) = 1
                /\ CountUnassigned(pinned[n]) = 0
        ELSE \A n \in 1..Len(pinned) :
                /\ ReportedWith(pinned[n], "NoFeasibleWindow")
                /\ CountInRoutes(pinned[n]) = 0

\* several visits pinned to an available visitor fail together on a window
\* conflict
C13_Witness ==
    /\ Done
    /\ \E r \in RouteIndices :
         /\ Len(PinnedTo(r)) >= 2
         /\ IsAvailable(visitors[r])
         /\ ~IsSome(compute_schedule(visitors[r], PinnedTo(r)))
         /\ \A n \in 1..Len(PinnedTo(r)) :
               ReportedWith(PinnedTo(r)[n], "NoFeasibleWindow")

(***************************************************************************)
(* Visitor pins without a visitor.                                         *)
(***************************************************************************)
\* v has a visitor pin type, no pinned_visitor, and passes the date check
PinWithoutVisitor(v) ==
    /\ visits[v].pin_type \in {"Visitor", "VisitorAndDate"}
    /\ visits[v].pinned_visitor = None
    /\ visits[v].pinned_date \in {None, Some(service_date)}

\* C14: a visit with pin_type Visitor or VisitorAndDate and no pinned_visitor
\* (its pinned_date, if set, being the service date) is reported unassigned
\* with MissingPinnedVisitor, and is never queued as a free visit nor routed.
C14_MissingPinnedVisitor ==
    \A v \in VisitIds :
      PinWithoutVisitor(v) =>
        /\ \A n \in 1..Len(to_assign) : to_assign[n] # v
        /\ \A r \in 1..Len(routes) :
              \A n \in 1..Len(routes[r].visits) : routes[r].visits[n] # v
        /\ Done => /\ ReportedWith(v, "MissingPinnedVisitor")
                   /\ CountUnassigned(v) = 1
                   /\ CountInRoutes(v) = 0

\* such a visit is reported although an available visitor could have taken it
C14_Witness ==
    /\ Done
    /\ \E v \in VisitIds :
         /\ PinWithoutVisitor(v)
         /\ CapableAvailable(v) # {}
         /\ ReportedWith(v, "MissingPinnedVisitor")

(***************************************************************************)
(* Determinism.  The state after every step other than the insertion of a  *)
(* free visit is a function of the state before it (and of the iteration   *)
(* cap); the hash maps are read by key only.  The insertion evaluates the  *)
(* routes in parallel: its outcome is compared over every completion       *)
(* order.                                                                  *)
(***************************************************************************)
\* C15: solve() is deterministic: the routes (visit orders, windows, costs)
\* and the unassigned list after inserting a free visit are the same for
\* every order in which the parallel route evaluations complete, so equal
\* inputs yield equal results.
C15_Determinism ==
    (pc = "insert" /\ k < Len(to_assign)) =>
      \A o1, o2 \in CompletionOrders :
        InsertOutcome(o1, to_assign[k + 1]) = InsertOutcome(o2, to_assign[k + 1])

\* a free visit is inserted where two routes offer the same cheapest cost and
\* the evaluations can complete in two different orders
C15_Witness ==
    /\ pc = "insert" /\ k < Len(to_assign)
    /\ Cardinality(CompletionOrders) > 1
    /\ \E o \in CompletionOrders :
         LET evals == RouteEvaluations(o, to_assign[k + 1]) IN
         /\ Len(evals) = 2
         /\ IsSome(evals[1].best_pos) /\ IsSome(evals[2].best_pos)
         /\ evals[1].best_cost = evals[2].best_cost

(***************************************************************************)
(* Local search and the global cost.  construction_cost is the sum of the  *)
(* route costs when the construction ends: what solve() returns when       *)
(* local_search_iterations = 0.                                            *)
(***************************************************************************)
\* the sum of the total costs of the routes of the result
ResultCost ==
    SumSeq([r \in 1..Len(result.routes) |-> result.routes[r].total_travel_time])

\* C16: the sum of the route costs solve() returns with
\* local_search_iterations >= 1 is at most the sum it returns, for the same
\* inputs, with local_search_iterations = 0.
C16_LocalSearchMonotonic ==
    Done =>
      /\ local_search_iterations = 0 => ResultCost = construction_cost
      /\ local_search_iterations >= 1 => ResultCost <= construction_cost

\* local search ran and returned a strictly cheaper set of routes
C16_Witness ==
    /\ Done
    /\ local_search_iterations >= 1
    /\ ResultCost < construction_cost

(***************************************************************************)
(* The reassignment penalty.                                               *)
(***************************************************************************)
\* v was last assigned to a visitor that has no availability on service_date
PriorVisitorUnavailable(v) ==
    /\ IsSome(visits[v].current_visitor_id)
    /\ ~IsSome(availability_for(Unwrap(visits[v].current_visitor_id), service_date))

\* some capable visitor's route takes v at some position with a schedule
FeasibleInsertion(v) ==
    \E r \in 1..Len(routes) :
      /\ visits[v].required_capabilities \subseteq RouteVisitor(routes[r]).capabilities
      /\ \E pos \in 0..Len(routes[r].visits) :
            IsSome(compute_schedule(RouteVisitor(routes[r]),
                                    SeqInsert(routes[r].visits, pos, v)))

\* the routes hold v
InRoutes(rs, v) ==
    \E r \in 1..Len(rs) : \E n \in 1..Len(rs[r].visits) : rs[r].visits[n] = v

\* C17: for any non-negative reassignment_penalty, a free visit whose
\* current visitor is unavailable on the service date is assigned whenever
\* some capable visitor admits a feasible insertion: the penalty alone never
\* leaves it unassigned.
C17_PenaltyIsBias ==
    (pc = "insert" /\ k < Len(to_assign)) =>
      LET v == to_assign[k + 1] IN
      (PriorVisitorUnavailable(v) /\ FeasibleInsertion(v)) =>
        \A order \in CompletionOrders : InRoutes(InsertOutcome(order, v).routes, v)

\* a step of local search that commits a 2-opt reversal or a relocate
CommittedMove ==
    /\ pc \in {"two_opt", "relocate"}
    /\ (routes' # routes \/ last_move' \in {"two_opt", "relocate"})

\* C18: every move local search commits, a 2-opt reversal or a relocate,
\* strictly decreases the global cost, the sum of the total costs of all
\* routes; across a committed move it never stays equal nor increases.
C18_StrictDecrease ==
    [][CommittedMove => TotalCost(routes') < TotalCost(routes)]_vars

\* a move was committed and the global cost is below the construction's
C18_Witness ==
    /\ last_move \in {"two_opt", "relocate"}
    /\ pc \in {"two_opt", "relocate", "project"}
    /\ TotalCost(routes) < construction_cost

(***************************************************************************)
(* Termination of local search.  iteration counts the passes completed.    *)
(***************************************************************************)
\* local search has returned
SearchOver == pc \in {"project", "done"}

\* the passes never exceed the cap; when the loop has ended after a pass
\* with a move, the cap was reached; under the cap ManyIterations the loop
\* ends on a pass without a move, before the cap
PassesBounded ==
    /\ iteration <= local_search_iterations
    /\ (SearchOver /\ local_search_iterations >= 1) =>
          /\ iteration >= 1
          /\ improved => iteration = local_search_iterations
    /\ (SearchOver /\ local_search_iterations = ManyIterations) =>
          /\ ~improved
          /\ iteration < ManyIterations

\* a pass in which neither 2-opt nor relocate committed a move is the last
StopsAtStagnation ==
    (pc = "relocate" /\ ~improved /\ routes' = routes) => pc' = "project"

\* C19: local search terminates: it runs at most local_search_iterations
\* passes, stops after the first pass in which neither a 2-opt nor the
\* relocate step committed a move, and with a cap it never reaches it still
\* ends on such a pass after finitely many passes.
C19_Termination ==
    /\ []PassesBounded
    /\ [][StopsAtStagnation]_vars

\* under the cap ManyIterations the loop ended on a stagnating pass that
\* followed two passes with a move
C19_Witness ==
    /\ Done
    /\ local_search_iterations = ManyIterations
    /\ iteration = 3
    /\ ~improved

(***************************************************************************)
(* Cheapest insertion.                                                     *)
(***************************************************************************)
\* the feasible candidates for the free visit v: <<route index, position,
\* cost>> (both 0-based) over the capable routes and the positions 0..=len
InsertionCandidates(v) ==
    LET capable == {r \in 1..Len(routes) :
                      visits[v].required_capabilities
                         \subseteq RouteVisitor(routes[r]).capabilities}
        schedule(r, pos) == compute_schedule(RouteVisitor(routes[r]),
                                             SeqInsert(routes[r].visits, pos, v))
        feasible == {rp \in capable \X (0..MaxVisits) :
                       /\ rp[2] <= Len(routes[rp[1]].visits)
                       /\ IsSome(schedule(rp[1], rp[2]))}
    IN {<<rp[1] - 1, rp[2], Unwrap(schedule(rp[1], rp[2]))[2]>> : rp \in feasible}

\* the candidate c is the cheapest, and among the cheapest the first by route
\* index, then by position
FirstCheapest(c, candidates) ==
    /\ c \in candidates
    /\ \A d \in candidates :
          \/ d[3] > c[3]
          \/ d[3] = c[3] /\ d[1] > c[1]
          \/ d[3] = c[3] /\ d[1] = c[1] /\ d[2] >= c[2]

\* rs is the routes with v inserted as the candidate c says
InsertedAs(rs, c, v) ==
    /\ rs[c[1] + 1].visits = SeqInsert(routes[c[1] + 1].visits, c[2], v)
    /\ rs[c[1] + 1].total_travel_time = c[3]
    /\ \A r \in 1..Len(rs) : r # c[1] + 1 => rs[r] = routes[r]

\* C20: cheapest insertion of a free visit: if any capable route and position
\* 0..=len schedules feasibly the visit is inserted, at a (route, position)
\* of minimum candidate-route cost, and on equal cost at the lowest route
\* index and, within that route, the lowest position.
C20_CheapestInsertion ==
    (pc = "insert" /\ k < Len(to_assign)) =>
      LET v == to_assign[k + 1]
          candidates == InsertionCandidates(v)
      IN
      \A order \in CompletionOrders :
        LET rs == InsertOutcome(order, v).routes IN
        IF candidates = {}
        THEN rs = routes
        ELSE \E c \in candidates : FirstCheapest(c, candidates) /\ InsertedAs(rs, c, v)

(***************************************************************************)
(* The parallel evaluation of the routes for one free visit.               *)
(***************************************************************************)
\* the order of a serial evaluation: route 0 first
SerialOrder == [n \in 1..Len(routes) |-> n - 1]

\* the evaluation the reduction keeps, the closures completing in this order
Reduced(order, v) == BestEvaluation(RouteEvaluations(order, v))

\* e is an evaluation with a position, of minimum cost, and of the lowest
\* route index among those of minimum cost
LowestCheapest(e, evals) ==
    /\ \E n \in 1..Len(evals) : evals[n] = e
    /\ IsSome(e.best_pos)
    /\ \A n \in 1..Len(evals) :
          IsSome(evals[n].best_pos) =>
            \/ evals[n].best_cost > e.best_cost
            \/ evals[n].best_cost = e.best_cost /\ evals[n].route_index >= e.route_index

\* C21: the per-route evaluation of one free visit mutates no route, and for
\* every completion order of the workers the reduced result equals the
\* serial evaluation's: the minimum cost, ties broken to the lowest route
\* index.
C21_ParallelEvaluation ==
    (pc = "insert" /\ k < Len(to_assign)) =>
      LET v == to_assign[k + 1] IN
      \A order \in CompletionOrders :
        LET evals == RouteEvaluations(order, v)
            best == Reduced(order, v)
        IN
        /\ best = Reduced(SerialOrder, v)
        /\ IF IsSome(best)
           THEN /\ LowestCheapest(Unwrap(best), evals)
                /\ \A r \in 1..Len(routes) :
                      r # Unwrap(best).route_index + 1 =>
                        InsertOutcome(order, v).routes[r] = routes[r]
           ELSE /\ \A n \in 1..Len(evals) : ~IsSome(evals[n].best_pos)
                /\ InsertOutcome(order, v).routes = routes

\* the workers complete in an order other than the serial one, two routes
\* offer the same minimum cost, and the reduction keeps route 0
C21_Witness ==
    /\ pc = "insert" /\ k < Len(to_assign)
    /\ \E order \in CompletionOrders :
         LET evals == RouteEvaluations(order, to_assign[k + 1])
             best == Reduced(order, to_assign[k + 1])
         IN
         /\ order # SerialOrder
         /\ IsSome(best)
         /\ Unwrap(best).route_index = 0
         /\ \E n \in 1..Len(evals) :
               /\ evals[n].route_index = 1
               /\ IsSome(evals[n].best_pos)
               /\ evals[n].best_cost = Unwrap(best).best_cost

(***************************************************************************)
(* Relocate and the hard constraints.                                      *)
(***************************************************************************)
\* the visits of the r-th of the routes rs, as a set
VisitsOf(rs, r) == {rs[r].visits[n] : n \in 1..Len(rs[r].visits)}

\* the relocate step puts v into the r-th route, where it was not
MovedInto(v, r) ==
    /\ pc = "relocate"
    /\ v \in VisitsOf(routes', r)
    /\ v \notin VisitsOf(routes, r)

\* C22: relocate never moves a visit with pin_type Visitor or VisitorAndDate
\* to a different route, and never moves a visit to a route whose visitor
\* lacks one of its required capabilities: those candidates are skipped.
C22_RelocateRespectsPins ==
    [][\A v \in VisitIds : \A r \in 1..Len(routes) :
          MovedInto(v, r) =>
            /\ visits[v].pin_type \notin {"Visitor", "VisitorAndDate"}
            /\ visits[v].required_capabilities \subseteq RouteVisitor(routes[r]).capabilities
      ]_vars

\* relocate has just committed a move while a route held a visit that may not
\* leave it: one pinned to its visitor, or one the other visitor cannot do
C22_Witness ==
    /\ last_move = "relocate"
    /\ pc \in {"two_opt", "relocate", "project"}
    /\ \E r, q \in 1..Len(routes) : \E v \in VisitsOf(routes, r) :
         /\ q # r
         /\ \/ visits[v].pin_type \in {"Visitor", "VisitorAndDate"}
            \/ ~(visits[v].required_capabilities \subseteq RouteVisitor(routes[q]).capabilities)

(***************************************************************************)
(* The cost of a schedule, term by term.                                   *)
(***************************************************************************)
\* the sequences of distinct visits a route can hold
VisitSequences ==
    {s \in UNION {[1..n -> VisitIds] : n \in 0..Len(visits)} :
        \A i, j \in DOMAIN s : i # j => s[i] # s[j]}

\* where the n-th leg of the sequence s starts for visitor
LegOrigin(visitor, s, n) ==
    IF n > 1 THEN visits[s[n - 1]].location
    ELSE IF IsSome(visitor.start_location) THEN Unwrap(visitor.start_location)
    ELSE visits[s[1]].location

\* matrix travel of the n-th leg of s
LegTravel(visitor, s, n) ==
    LET from == coord_to_int_key(LegOrigin(visitor, s, n))
        to == coord_to_int_key(visits[s[n]].location)
    IN matrix[coord_index[from]][coord_index[to]]

\* |start - target| * target_time_weight of the n-th visit of s
TargetCharge(s, n, start) ==
    LET visit == visits[s[n]] IN
    IF IsSome(visit.target_time)
    THEN Max2(start - Unwrap(visit.target_time), Unwrap(visit.target_time) - start)
         * options.target_time_weight
    ELSE 0

\* reassignment_penalty when the n-th visit of s has another current visitor
MoveCharge(visitor, s, n) ==
    IF visits[s[n]].current_visitor_id \notin {None, Some(visitor.id)}
    THEN options.reassignment_penalty ELSE 0

\* the terms of the cost of s, three for each visit
CostTerms(visitor, s, windows) ==
    [m \in 1..(3 * Len(s)) |->
        LET n == ((m - 1) \div 3) + 1 IN
        CASE (m - 1) % 3 = 0 -> LegTravel(visitor, s, n)
          [] (m - 1) % 3 = 1 -> TargetCharge(s, n, windows[n][1])
          [] OTHER -> MoveCharge(visitor, s, n)]

\* the sum of the terms as a number, None when it is beyond an i32
RECURSIVE ExactSum(_)
ExactSum(terms) ==
    IF Len(terms) = 0 THEN Some(0)
    ELSE LET rest == ExactSum(Tail(terms)) IN
         IF IsSome(rest) /\ FitsI32(Unwrap(rest), Head(terms))
         THEN Some(Unwrap(rest) + Head(terms))
         ELSE None

\* C23: the cost the scheduler returns for a feasible sequence is the sum of
\* the matrix travel along it from the visitor's start location (from the
\* first visit itself, a zero leg, when there is none), with no return leg,
\* plus |start - target| * target_time_weight for each visit with a target,
\* plus reassignment_penalty for each visit whose current visitor is another
\* one; waiting adds nothing.
C23_ScheduleCost ==
    (pc = "seed") =>
      \A r \in 1..Len(visitors) : \A s \in VisitSequences :
        LET schedule == compute_schedule(visitors[r], s) IN
        IsSome(schedule) =>
          LET windows == Unwrap(schedule)[1] IN
          /\ Len(windows) = Len(s)
          /\ ExactSum(CostTerms(visitors[r], s, windows)) = Some(Unwrap(schedule)[2])
          /\ (Len(s) > 0 /\ ~IsSome(visitors[r].start_location))
               => LegTravel(visitors[r], s, 1) = 0

(***************************************************************************)
(* find_fitting_window against the fit it is to find.                      *)
(***************************************************************************)
\* earliest-ready times on both sides of every segment and committed bound
ReadyTimes == {0, 40, 50, 100, 150, 200, 280, 290, 350, 400}

\* instants at which a visit of the inputs may start
StartTimes == {10 * n : n \in 0..60}

\* the segment lists, committed windows and durations of the inputs
SegmentLists == {Unwrap(availability[id]) : id \in {i \in DOMAIN availability : IsSome(availability[i])}}

CommittedWindows == {None} \cup {visits[v].committed_window : v \in VisitIds}

Durations == {duration_secs(visits[v]) : v \in VisitIds}

\* the visit of the given duration fits entirely in segment idx (0-based)
\* when it starts at s
FitsAt(idx, s, earliest_start, duration, windows, committed_window) ==
    /\ s >= earliest_start
    /\ s >= windows[idx + 1][1]
    /\ s + duration <= windows[idx + 1][2]
    /\ IsSome(committed_window) =>
         /\ s >= Unwrap(committed_window)[1]
         /\ s + duration <= Unwrap(committed_window)[2]

\* the starts tried: the grid and every lower bound of a start
TriedStarts(earliest_start, windows, committed_window) ==
    StartTimes \cup {earliest_start}
      \cup {windows[n][1] : n \in 1..Len(windows)}
      \cup (IF IsSome(committed_window) THEN {Unwrap(committed_window)[1]} ELSE {})

\* find_fitting_window returns the earliest fit from segment from_idx on
EarliestFit(earliest_start, duration, from_idx, windows, committed_window) ==
    LET fit == find_fitting_window(earliest_start, duration, from_idx, windows, committed_window)
        tried == TriedStarts(earliest_start, windows, committed_window)
        fits(idx, s) == FitsAt(idx, s, earliest_start, duration, windows, committed_window)
    IN
    IF IsSome(fit)
    THEN LET start == Unwrap(fit)[1]
             idx == Unwrap(fit)[2]
         IN /\ idx >= from_idx
            /\ idx < Len(windows)
            /\ fits(idx, start)
            /\ \A s \in tried : fits(idx, s) => start <= s
            /\ \A lower \in from_idx..(idx - 1) : \A s \in tried : ~fits(lower, s)
    ELSE \A idx \in from_idx..(Len(windows) - 1) : \A s \in tried : ~fits(idx, s)

\* C24: for sorted disjoint segments find_fitting_window returns the lowest
\* segment index from the starting index on in which the visit fits entirely
\* and the smallest start in it that is at or after the earliest-ready time,
\* the segment's open and the committed start and ends by the segment's close
\* and the committed end; it fails exactly when there is no such fit.
C24_FitInSegment ==
    (pc = "classify" /\ k = 0) =>
      \A windows \in SegmentLists : \A committed_window \in CommittedWindows :
        \A duration \in Durations : \A earliest_start \in ReadyTimes :
          \A from_idx \in 0..Len(windows) :
            EarliestFit(earliest_start, duration, from_idx, windows, committed_window)

\* a fit found in the second segment after the first was too short, at the
\* committed start, and a search that fails
C24_Witness ==
    /\ pc = "classify" /\ k = 0
    /\ \E windows \in SegmentLists : \E committed_window \in CommittedWindows :
         \E duration \in Durations : \E earliest_start \in ReadyTimes :
           LET fit == find_fitting_window(earliest_start, duration, 0, windows, committed_window)
           IN /\ IsSome(committed_window)
              /\ IsSome(fit)
              /\ Unwrap(fit)[2] = 1
              /\ Unwrap(fit)[1] = Unwrap(committed_window)[1]
              /\ Unwrap(fit)[1] > earliest_start
              /\ \E other \in CommittedWindows :
                   ~IsSome(find_fitting_window(earliest_start, duration, 0, windows, other))

(***************************************************************************)
(* One local-search pass: what a 2-opt step and a relocate step may change.*)
(***************************************************************************)
\* the pairs (i, j) of two_opt_improve for a route of n visits, 0-based
TwoOptPairs(n) == {c \in (0..(n - 1)) \X (0..(n - 1)) : c[1] < n - 1 /\ c[2] >= c[1] + 2}

\* after is before with the 0-based positions i+1..=j in reverse order
ReversedBetween(before, after, i, j) ==
    /\ Len(after) = Len(before)
    /\ \A q \in 0..(Len(before) - 1) :
         after[q + 1] = IF q >= i + 1 /\ q <= j THEN before[(i + 1 + j - q) + 1]
                        ELSE before[q + 1]

\* reversing i+1..=j gives a feasible route strictly cheaper than the stored cost
StrictlyImproving(route, c) ==
    LET schedule == compute_schedule(RouteVisitor(route),
                                     [q \in 1..Len(route.visits) |->
                                        IF q - 1 >= c[1] + 1 /\ q - 1 <= c[2]
                                        THEN route.visits[(c[1] + 1 + c[2] - (q - 1)) + 1]
                                        ELSE route.visits[q]])
    IN IsSome(schedule) /\ Unwrap(schedule)[2] < route.total_travel_time

\* c comes first in the order of the loops: i ascending, then j ascending
BeforeOrAt(c, d) == c[1] < d[1] \/ (c[1] = d[1] /\ c[2] <= d[2])

\* the 2-opt step on the route at index k
TwoOptFrame ==
    LET route == routes[k + 1]
        improving == {c \in TwoOptPairs(Len(route.visits)) : StrictlyImproving(route, c)}
    IN
    /\ Len(routes') = Len(routes)
    /\ \A r \in 1..Len(routes) : r # k + 1 => routes'[r] = routes[r]
    /\ pc' = "two_opt" => k' = k + 1
    /\ routes'[k + 1].visitor = route.visitor
    /\ IF Len(route.visits) < 3 \/ improving = {}
       THEN routes'[k + 1] = route
       ELSE \E c \in improving :
              /\ \A d \in improving : BeforeOrAt(c, d)
              /\ ReversedBetween(route.visits, routes'[k + 1].visits, c[1], c[2])

\* s without the visit v
Without(s, v) == SelectSeq(s, LAMBDA x : x # v)

\* the relocate step: at most one visit changes place, and the pass is over
RelocateFrame ==
    /\ iteration' = iteration + 1
    /\ Len(routes') = Len(routes)
    /\ \/ routes' = routes
       \/ \E v \in VisitIds : \A r \in 1..Len(routes) :
            Without(routes'[r].visits, v) = Without(routes[r].visits, v)

StoredIsScheduled(route) ==
    IF Len(route.visits) = 0
    THEN route.estimated_windows = << >> /\ route.total_travel_time = 0
    ELSE compute_schedule(RouteVisitor(route), route.visits)
           = Some(<<route.estimated_windows, route.total_travel_time>>)

\* the step commits nothing: an insertion that reports the visit instead, a
\* 2-opt step or a relocate step without an improving feasible candidate
Rejected ==
    \/ pc = "insert" /\ Len(unassigned_with_reason') > Len(unassigned_with_reason)
    \/ pc = "two_opt" /\ last_move' = "two_opt_none"
    \/ pc = "relocate" /\ last_move' = "relocate_none"

\* C26: after pinned seeding, every insertion and every committed 2-opt or
\* relocate move each route's stored estimated_windows and cost are exactly
\* what the scheduler returns for its current visits (empty and 0 for an
\* empty route); a rejected candidate leaves every route unchanged.
C26_StoredSchedule ==
    /\ [](\A r \in 1..Len(routes) : StoredIsScheduled(routes[r]))
    /\ [][Rejected => routes' = routes]_vars

\* relocate has just committed a move that lowered the cost of the plan, in a
\* plan of two routes that both hold visits
C26_Witness ==
    /\ last_move = "relocate"
    /\ iteration >= 1
    /\ Len(routes) = 2
    /\ \A r \in 1..Len(routes) : Len(routes[r].visits) > 0
    /\ TotalCost(routes) < construction_cost

(***************************************************************************)
(* Local search and the assignment made by construction.                   *)
(***************************************************************************)
\* the number of places the visit v holds in the routes rs
Occurrences(rs, v) ==
    Cardinality({p \in (1..Len(rs)) \X (1..Len(visits)) :
                    p[2] <= Len(rs[p[1]].visits) /\ rs[p[1]].visits[p[2]] = v})

\* local search has begun and its result is not yet projected
InLocalSearch == pc \in {"local_search", "two_opt", "relocate"}

TriedPositions(rs, from_route_idx, visit_idx, to_route_idx) ==
    {insert_pos \in 0..(InsertPositions(rs, from_route_idx, to_route_idx) - 1) :
        ~RelocateSkipped(rs, from_route_idx, visit_idx, to_route_idx, insert_pos)}

\* the visit at visit_idx of route from_route_idx may enter the route to_route_idx
MayEnter(rs, from_route_idx, visit_idx, to_route_idx) ==
    LET visit == visits[rs[from_route_idx + 1].visits[visit_idx + 1]] IN
    /\ visit.required_capabilities \subseteq RouteVisitor(rs[to_route_idx + 1]).capabilities
    /\ (to_route_idx # from_route_idx => ~IsVisitorPin(visit))

\* C28: for the visit at index i of a route of n visits relocate within the
\* route tries the insert positions 0..n-1 except i and i+1, positions above
\* i meaning one place less once the visit is removed, so the visit is never
\* proposed as the last of its own route; for a different route the
\* position at its end is tried.
C28_SameRouteCandidates ==
    (pc = "relocate") =>
      \A from \in 0..(Len(routes) - 1) : \A i \in 0..(Len(routes[from + 1].visits) - 1) :
        LET n == Len(routes[from + 1].visits)
            v == routes[from + 1].visits[i + 1]
        IN
        \A to \in 0..(Len(routes) - 1) :
          MayEnter(routes, from, i, to) =>
            LET tried == TriedPositions(routes, from, i, to) IN
            IF to = from
            THEN /\ tried = (0..(n - 1)) \ {i, i + 1}
                 /\ \A pos \in tried :
                      LET candidate == ToCandidate(routes, from, i, to, pos) IN
                      /\ Len(candidate) = n
                      /\ candidate[(IF pos > i THEN pos - 1 ELSE pos) + 1] = v
                      /\ Without(candidate, v) = Without(routes[from + 1].visits, v)
                      /\ candidate[n] # v
            ELSE LET m == Len(routes[to + 1].visits) IN
                 /\ tried = 0..m
                 /\ ToCandidate(routes, from, i, to, m) = Append(routes[to + 1].visits, v)

\* relocate runs on two routes, one of at least three visits whose first
\* visit may enter the other one
C28_Witness ==
    /\ pc = "relocate"
    /\ Len(routes) = 2
    /\ \E from, to \in 0..1 :
         /\ from # to
         /\ Len(routes[from + 1].visits) >= 3
         /\ MayEnter(routes, from, 0, to)

(***************************************************************************)
(* Travel and the start of a visit.                                        *)
(***************************************************************************)
\* the time from which the visitor travels to the n-th visit of s
DepartureTime(visitor, n, windows) ==
    IF n > 1 THEN windows[n - 1][2]
    ELSE Unwrap(availability_for(visitor.id, service_date))[1][1]

\* every visit of s starts after the travel to it
StartsAfterTravel(visitor, s, windows) ==
    \A n \in 1..Len(s) :
      windows[n][1] >= DepartureTime(visitor, n, windows) + LegTravel(visitor, s, n)

\* C29: in every schedule the scheduler returns the first visit starts no
\* earlier than the open of the first availability segment plus the travel
\* from the start location, and every later visit no earlier than the end of
\* the visit before it plus the matrix travel between the two locations.
C29_TravelConsumesTime ==
    /\ (pc = "seed") =>
         \A r \in 1..Len(visitors) : \A s \in VisitSequences :
           LET schedule == compute_schedule(visitors[r], s) IN
           IsSome(schedule) => StartsAfterTravel(visitors[r], s, Unwrap(schedule)[1])
    /\ \A r \in 1..Len(routes) :
         StartsAfterTravel(RouteVisitor(routes[r]), routes[r].visits,
                           routes[r].estimated_windows)

\* a route of two visits whose visitor travels to both, the second visit
\* starting exactly on arrival
C29_Witness ==
    \E r \in 1..Len(routes) :
      LET route == routes[r] IN
      /\ Len(route.visits) >= 2
      /\ LegTravel(RouteVisitor(route), route.visits, 1) > 0
      /\ LegTravel(RouteVisitor(route), route.visits, 2) > 0
      /\ route.estimated_windows[2][1]
           = route.estimated_windows[1][2] + LegTravel(RouteVisitor(route), route.visits, 2)

(***************************************************************************)
(* The location list, its index and the lookups of the scheduler.          *)
(***************************************************************************)
\* the locations in the order collect_locations pushes them
RawLocations ==
    VisitorLocations(visitors) \o [n \in 1..Len(visits) |-> visits[n].location]

\* the places of RawLocations whose key occurs at no earlier place
FirstPlaces ==
    {n \in 1..Len(RawLocations) :
        \A m \in 1..(n - 1) :
            coord_to_int_key(RawLocations[m]) # coord_to_int_key(RawLocations[n])}

\* the p-th smallest element of the set of numbers S
NthOf(S, p) == CHOOSE n \in S : Cardinality({m \in S : m < n}) = p - 1

\* the keys the scheduler looks up: start locations and visit locations
LookupKeys ==
    {coord_to_int_key(Unwrap(visitors[r].start_location)) :
        r \in {q \in 1..Len(visitors) : IsSome(visitors[q].start_location)}}
    \cup {coord_to_int_key(visits[v].location) : v \in VisitIds}

\* the matrix and its index are built
MatrixBuilt == pc # "classify"

\* C30: the de-duplicated location list holds no two entries of the same
\* rounded key, in the order of first occurrence, and the index maps the key
\* of every visitor start location and visit location to its row, so every
\* travel lookup of the scheduler finds its keys, also for a visitor without
\* start location and for an empty route.
C30_LookupNeverMisses ==
    /\ MatrixBuilt =>
         /\ LookupKeys \subseteq DOMAIN coord_index
         /\ \A key \in DOMAIN coord_index : coord_index[key] \in 1..Len(matrix)
         /\ \A row \in 1..Len(matrix) : Len(matrix[row]) = Len(locations)
    /\ (pc = "seed") =>
         /\ \A m, n \in 1..Len(locations) :
              m # n => coord_to_int_key(locations[m]) # coord_to_int_key(locations[n])
         /\ Len(locations) = Cardinality(FirstPlaces)
         /\ \A p \in 1..Len(locations) : locations[p] = RawLocations[NthOf(FirstPlaces, p)]
         /\ \A p \in 1..Len(locations) : coord_index[coord_to_int_key(locations[p])] = p
         /\ \A r \in 1..Len(visitors) : \A s \in VisitSequences : \A n \in 1..Len(s) :
              /\ coord_to_int_key(LegOrigin(visitors[r], s, n)) \in DOMAIN coord_index
              /\ coord_to_int_key(visits[s[n]].location) \in DOMAIN coord_index

\* routes are being scheduled with an index in which two different
\* coordinates share a key and a row, for a visitor without start location
\* whose route is empty
C30_Witness ==
    /\ pc \in {"insert", "two_opt", "relocate"}
    /\ \E m, n \in 1..Len(RawLocations) :
         /\ RawLocations[m] # RawLocations[n]
         /\ coord_to_int_key(RawLocations[m]) = coord_to_int_key(RawLocations[n])
    /\ \E r \in 1..Len(routes) :
         /\ ~IsSome(RouteVisitor(routes[r]).start_location)
         /\ Len(routes[r].visits) = 0
    /\ \E r \in 1..Len(routes) : Len(routes[r].visits) >= 2

====
